---- MODULE Spec2Model ----
(***************************************************************************)
(* A model of charge-flow (sketch.js and its earlier iteration): static    *)
(* charges, flow-line tracers and dynamic bodies, advanced frame by frame. *)
(*                                                                         *)
(* JavaScript numbers are modelled as binary floating-point values with a  *)
(* MantBits-bit mantissa, round-to-nearest-even, and the IEEE special      *)
(* values NaN and +/-Infinity: the operations have the structure of the    *)
(* IEEE ones (x/0 = Infinity, 0/0 = NaN, NaN propagates, comparisons with  *)
(* NaN are false) at a precision that fits TLC's 32-bit integers.          *)
(***************************************************************************)
EXTENDS Integers, Sequences, FiniteSets, TLC

(***************************************************************************)
(* Floating point                                                          *)
(***************************************************************************)
MantBits == 14 + 1
MantLo == 2^(MantBits - 1)
MantHi == 2^MantBits

NaN == [k |-> "nan", s |-> 1, m |-> 0, e |-> 0]
Inf(sgn) == [k |-> "inf", s |-> sgn, m |-> 0, e |-> 0]
Zero == [k |-> "num", s |-> 1, m |-> 0, e |-> 0]

IsNaN(a) == a.k = "nan"
IsInf(a) == a.k = "inf"
IsNum(a) == a.k = "num"
IsZero(a) == a.k = "num" /\ a.m = 0
IsFinite(a) == a.k = "num"

\* The one element of a singleton set.  An operator that uses an argument
\* more than once takes it through a singleton set, { ... : a \in {x} }, so
\* that the argument is evaluated once.
Val(S) == CHOOSE r \in S : TRUE

\* Number of bits of n, 0 <= n < 2^31.
BitLen(n) ==
  IF n < 65536
  THEN IF n < 256
       THEN IF n < 16
            THEN IF n < 4 THEN (IF n < 2 THEN n ELSE 2)
                          ELSE (IF n < 8 THEN 3 ELSE 4)
            ELSE IF n < 64 THEN (IF n < 32 THEN 5 ELSE 6)
                           ELSE (IF n < 128 THEN 7 ELSE 8)
       ELSE IF n < 4096
            THEN IF n < 1024 THEN (IF n < 512 THEN 9 ELSE 10)
                             ELSE (IF n < 2048 THEN 11 ELSE 12)
            ELSE IF n < 16384 THEN (IF n < 8192 THEN 13 ELSE 14)
                              ELSE (IF n < 32768 THEN 15 ELSE 16)
  ELSE IF n < 16777216
       THEN IF n < 1048576
            THEN IF n < 262144 THEN (IF n < 131072 THEN 17 ELSE 18)
                               ELSE (IF n < 524288 THEN 19 ELSE 20)
            ELSE IF n < 4194304 THEN (IF n < 2097152 THEN 21 ELSE 22)
                                ELSE (IF n < 8388608 THEN 23 ELSE 24)
       ELSE IF n < 268435456
            THEN IF n < 67108864 THEN (IF n < 33554432 THEN 25 ELSE 26)
                                 ELSE (IF n < 134217728 THEN 27 ELSE 28)
            ELSE IF n < 1073741824 THEN (IF n < 536870912 THEN 29 ELSE 30)
                                   ELSE 31

\* A rounded mantissa that reached MantHi is renormalised.
Carry(sgn, q1, ex) ==
  IF q1 = MantHi THEN [k |-> "num", s |-> sgn, m |-> MantLo, e |-> ex + 1]
  ELSE [k |-> "num", s |-> sgn, m |-> q1, e |-> ex]

\* q + rem / (2 * half), rounded to the nearest integer, ties to even.
Round(sgn, q, rem, half, ex) ==
  Carry(sgn, IF rem > half \/ (rem = half /\ q % 2 = 1) THEN q + 1 ELSE q, ex)

\* sgn * n * 2^ex for n of len bits.
NormLen(sgn, n, ex, len) ==
  IF len <= MantBits
  THEN [k |-> "num", s |-> sgn, m |-> n * 2^(MantBits - len),
        e |-> ex - (MantBits - len)]
  ELSE Round(sgn, n \div 2^(len - MantBits), n % 2^(len - MantBits),
             2^(len - MantBits - 1), ex + (len - MantBits))

\* The value sgn * n * 2^ex rounded to MantBits bits, ties to even.
Norm(sgn, n, ex) ==
  IF n = 0 THEN Zero
  ELSE Val({ NormLen(sgn, v, ex, BitLen(v)) : v \in {n} })

FromInt(n) == IF n < 0 THEN Norm(-1, -n, 0) ELSE Norm(1, n, 0)

FNeg(x) ==
  Val({ IF IsNaN(a) \/ IsZero(a) THEN a ELSE [a EXCEPT !.s = -a.s] : a \in {x} })

FAbs(x) == Val({ IF IsNaN(a) THEN a ELSE [a EXCEPT !.s = 1] : a \in {x} })

\* hi + lo for finite nonzero hi, lo with hi.e >= lo.e
AddAligned(hi, lo) ==
  IF hi.e - lo.e > MantBits THEN hi
  ELSE Val({ IF sum < 0 THEN Norm(-1, -sum, lo.e) ELSE Norm(1, sum, lo.e) :
             sum \in { hi.s * hi.m * 2^(hi.e - lo.e) + lo.s * lo.m } })

FAdd(x, y) ==
  Val({ IF IsNaN(a) \/ IsNaN(b) THEN NaN
        ELSE IF IsInf(a) THEN (IF IsInf(b) /\ b.s # a.s THEN NaN ELSE a)
        ELSE IF IsInf(b) THEN b
        ELSE IF a.m = 0 THEN b
        ELSE IF b.m = 0 THEN a
        ELSE IF a.e >= b.e THEN AddAligned(a, b) ELSE AddAligned(b, a) :
        a \in {x}, b \in {y} })

FSub(a, b) == FAdd(a, FNeg(b))

FMul(x, y) ==
  Val({ IF IsNaN(a) \/ IsNaN(b) THEN NaN
        ELSE IF IsInf(a) \/ IsInf(b)
             THEN (IF IsZero(a) \/ IsZero(b) THEN NaN ELSE Inf(a.s * b.s))
        ELSE Norm(a.s * b.s, a.m * b.m, a.e + b.e) :
        a \in {x}, b \in {y} })

FDiv(x, y) ==
  Val({ IF IsNaN(a) \/ IsNaN(b) THEN NaN
        ELSE IF IsInf(a) THEN (IF IsInf(b) THEN NaN ELSE Inf(a.s * b.s))
        ELSE IF IsInf(b) THEN Zero
        ELSE IF b.m = 0 THEN (IF a.m = 0 THEN NaN ELSE Inf(a.s * b.s))
        ELSE IF a.m = 0 THEN Zero
        ELSE Norm(a.s * b.s,
                  2 * ((a.m * 2^(MantBits + 1)) \div b.m)
                    + (IF (a.m * 2^(MantBits + 1)) % b.m = 0 THEN 0 ELSE 1),
                  a.e - b.e - (MantBits + 2)) :
        a \in {x}, b \in {y} })

\* Integer square root (floor), by Newton's iteration from above.
RECURSIVE ISqrtFrom(_, _)
ISqrtFrom(n, x) ==
  Val({ IF y >= x THEN x ELSE ISqrtFrom(n, y) : y \in { (x + n \div x) \div 2 } })

ISqrt(n) == IF n = 0 THEN 0 ELSE ISqrtFrom(n, 65536)

\* The square root of n * 2^ex, ex even.
SqrtScaled(n, ex) ==
  Val({ Norm(1, 2 * r + (IF r * r = n THEN 0 ELSE 1), ex \div 2 - 1) :
        r \in { ISqrt(n) } })

FSqrt(x) ==
  Val({ IF IsNaN(a) THEN NaN
        ELSE IF IsZero(a) THEN Zero
        ELSE IF a.s < 0 THEN NaN
        ELSE IF IsInf(a) THEN a
        ELSE IF (a.e - MantBits) % 2 = 0
             THEN SqrtScaled(a.m * 2^MantBits, a.e - MantBits)
             ELSE SqrtScaled(a.m * 2^(MantBits + 1), a.e - (MantBits + 1)) :
        a \in {x} })

\* a < b; false when either is NaN.
FLt(x, y) ==
  Val({ IF IsNaN(a) \/ IsNaN(b) THEN FALSE
        ELSE IF IsInf(a) THEN a.s < 0 /\ ~(IsInf(b) /\ b.s < 0)
        ELSE IF IsInf(b) THEN b.s > 0
        ELSE Val({ d.m # 0 /\ d.s < 0 : d \in { FSub(a, b) } }) :
        a \in {x}, b \in {y} })

FGt(a, b) == FLt(b, a)

\* a == b in the sense of JavaScript: NaN equals nothing.
FEq(x, y) == Val({ ~IsNaN(a) /\ ~IsNaN(b) /\ a = b : a \in {x}, b \in {y} })

FNe(a, b) == ~FEq(a, b)

FGe(x, y) == Val({ FLt(b, a) \/ FEq(a, b) : a \in {x}, b \in {y} })

\* Math.floor
FFloor(x) ==
  Val({ IF ~IsNum(a) \/ a.m = 0 \/ a.e >= 0 THEN a
        ELSE IF -a.e >= MantBits + 1
             THEN (IF a.s > 0 THEN Zero ELSE FromInt(-1))
        ELSE IF a.s > 0 THEN FromInt(a.m \div 2^(-a.e))
        ELSE FromInt(-(a.m \div 2^(-a.e)
                       + (IF a.m % 2^(-a.e) = 0 THEN 0 ELSE 1))) :
        a \in {x} })

\* 10^n as a float.
RECURSIVE Pow10(_)
Pow10(n) == IF n = 0 THEN FromInt(1) ELSE FMul(Pow10(n - 1), FromInt(10))

\* The decimal literal d * 10^p.
Dec(d, p) ==
  IF p >= 0 THEN FMul(FromInt(d), Pow10(p)) ELSE FDiv(FromInt(d), Pow10(-p))

PI == Dec(31416, -4)
TWO_PI == FMul(FromInt(2), PI)
HALF_PI == FDiv(PI, FromInt(2))

\* pi/2 in two parts, as in fdlibm's argument reduction: the high part has few
\* bits, so that a small multiple of it is exact, and the low part is the rest.
PIO2_HI == FDiv(FromInt(201), FromInt(128))
PIO2_LO == Dec(48383, -8)

\* n mod 4 for an integer-valued float n
Quadrant(n) ==
  Val({ IF IsZero(n4) THEN 0
        ELSE IF n4 = FromInt(1) THEN 1
        ELSE IF n4 = FromInt(2) THEN 2 ELSE 3 :
        n4 \in { FSub(n, FMul(FFloor(FDiv(n, FromInt(4))), FromInt(4))) } })

\* The argument of sin and cos as quad * pi/2 + z with |z| <= pi/4 (about).
TrigReduce(x) ==
  Val({ [z |-> FSub(FSub(x, FMul(n, PIO2_HI)), FMul(n, PIO2_LO)),
         quad |-> Quadrant(n)] :
        n \in { FFloor(FAdd(FDiv(x, HALF_PI), Dec(5, -1))) } })

\* 1 - (q / d) * t
TrigTerm(q, d, t) == FSub(FromInt(1), FMul(FDiv(q, FromInt(d)), t))

\* sin on [-pi/4, pi/4], by its Taylor series.
KernelSin(z) ==
  Val({ FMul(z, TrigTerm(q, 6, TrigTerm(q, 20, TrigTerm(q, 42,
                  TrigTerm(q, 72, FromInt(1)))))) :
        q \in { FMul(z, z) } })

\* cos on [-pi/4, pi/4], by its Taylor series.
KernelCos(z) ==
  Val({ TrigTerm(q, 2, TrigTerm(q, 12, TrigTerm(q, 30,
                 TrigTerm(q, 56, FromInt(1))))) :
        q \in { FMul(z, z) } })

\* Math.sin
FSin(x) ==
  IF ~IsNum(x) THEN NaN
  ELSE Val({ CASE r.quad = 0 -> KernelSin(r.z)
               [] r.quad = 1 -> KernelCos(r.z)
               [] r.quad = 2 -> FNeg(KernelSin(r.z))
               [] OTHER -> FNeg(KernelCos(r.z)) :
             r \in { TrigReduce(x) } })

\* Math.cos
FCos(x) ==
  IF ~IsNum(x) THEN NaN
  ELSE Val({ CASE r.quad = 0 -> KernelCos(r.z)
               [] r.quad = 1 -> FNeg(KernelSin(r.z))
               [] r.quad = 2 -> FNeg(KernelCos(r.z))
               [] OTHER -> KernelSin(r.z) :
             r \in { TrigReduce(x) } })

(***************************************************************************)
(* Constants of sketch.js                                                  *)
(***************************************************************************)
K == Dec(899, 7)
STATIC_PARTICLE_CHARGE == Dec(1, -9)
DYNAMIC_PARTICLE_CHARGE == Dec(1, -9)
DYNAMIC_PARTICLE_MASS == Dec(3, -9)
DYNAMIC_PARTICLE_SUBSTEPS == 25
DYNAMIC_DIPOLE_SPACING == Dec(5, -1)
PIXELS_PER_METER == 100
TRACER_STEPS_PER_FRAME == 25
TRACER_STEP_DISTANCE == Dec(5, -3)
TOO_CLOSE == FDiv(FromInt(6), FromInt(PIXELS_PER_METER))
\* Declared as the arrow ceiling, in volts; updateAndDraw compares with the
\* literal ARROW_POTENTIAL_LITERAL instead.
MAX_ARROW_POTENTIAL == 50
ARROW_POTENTIAL_LITERAL == 40
\* The seed radius of clearField, 0.01 m.
SEED_RADIUS == Dec(1, -2)
\* draw's dt = 1 / 30.0
FRAME_DT == FDiv(FromInt(1), FromInt(30))

\* prevPotential = null
Null == [k |-> "null", s |-> 1, m |-> 0, e |-> 0]

(***************************************************************************)
(* Field evaluation                                                        *)
(***************************************************************************)
StaticParticle(x, y, charge) == [x |-> x, y |-> y, charge |-> charge]

getElecField(particle, x, y) ==
  Val({ Val({ Val({ [x |-> FMul(FDiv(dx, dist), FDiv(elecPotential, dist)),
                     y |-> FMul(FDiv(dy, dist), FDiv(elecPotential, dist)),
                     pot |-> elecPotential,
                     dist |-> dist] :
                    elecPotential \in { FDiv(FMul(K, particle.charge), dist) } }) :
              dist \in { FSqrt(FAdd(FMul(dx, dx), FMul(dy, dy))) } }) :
        dx \in { FSub(x, particle.x) }, dy \in { FSub(y, particle.y) } })

\* The two ends of a dipole: its centre plus each offset along its angle.
DipoleEnds(b, sinAngle, cosAngle) ==
  Val({ [x1 |-> FAdd(b.x, FMul(b.offset1, c)),
         y1 |-> FAdd(b.y, FMul(b.offset1, s)),
         x2 |-> FAdd(b.x, FMul(b.offset2, c)),
         y2 |-> FAdd(b.y, FMul(b.offset2, s))] :
        s \in { sinAngle }, c \in { cosAngle } })

\* DynamicParticle.getChargeLocations / DynamicDipole.getChargeLocations
getChargeLocations(b) ==
  IF b.kind = "particle"
  THEN << [x |-> b.x, y |-> b.y, charge |-> b.charge] >>
  ELSE Val({ << [x |-> p.x1, y |-> p.y1, charge |-> b.charge1],
                [x |-> p.x2, y |-> p.y2, charge |-> b.charge2] >> :
             p \in { DipoleEnds(b, FSin(b.angle), FCos(b.angle)) } })

\* The body of the first loop of getNetElecField: a static particle's field
\* is summed and tracked in closestDist.
AddStatic(sum, f) ==
  Val({ [acc EXCEPT !.x = FAdd(acc.x, field.x),
                    !.y = FAdd(acc.y, field.y),
                    !.pot = FAdd(acc.pot, field.pot),
                    !.closestDist = IF FLt(field.dist, acc.closestDist)
                                    THEN field.dist ELSE acc.closestDist] :
        acc \in { sum }, field \in { f } })

\* The first loop of getNetElecField, over the static particles.
RECURSIVE StaticLoop(_, _, _, _, _)
StaticLoop(particles, i, x, y, acc) ==
  IF i > Len(particles) THEN acc
  ELSE StaticLoop(particles, i + 1, x, y,
                  AddStatic(acc, getElecField(particles[i], x, y)))

\* The test of the second loop: a location contributes when it is farther
\* than TOO_CLOSE.
Contributes(field) == FGt(field.dist, TOO_CLOSE)

\* The body of the second loop of getNetElecField, for location l of dynamic
\* number d.  srcs records, for each location visited, its owner, whether it
\* was summed and its distance (history, not program state).
AddLocation(sum, f, d, l) ==
  Val({ IF Contributes(field)
        THEN [acc EXCEPT !.x = FAdd(acc.x, field.x),
                         !.y = FAdd(acc.y, field.y),
                         !.srcs = Append(acc.srcs, [d |-> d, l |-> l, used |-> TRUE,
                                                    dist |-> field.dist])]
        ELSE [acc EXCEPT !.srcs = Append(acc.srcs, [d |-> d, l |-> l, used |-> FALSE,
                                                    dist |-> field.dist])] :
        acc \in { sum }, field \in { f } })

RECURSIVE LocationLoop(_, _, _, _, _, _)
LocationLoop(locations, d, l, x, y, acc) ==
  IF l > Len(locations) THEN acc
  ELSE LocationLoop(locations, d, l + 1, x, y,
                    AddLocation(acc, getElecField(locations[l], x, y), d, l))

\* The second loop of getNetElecField, over the dynamic bodies.
RECURSIVE DynamicLoop(_, _, _, _, _)
DynamicLoop(dynamics, d, x, y, acc) ==
  IF d > Len(dynamics) THEN acc
  ELSE Val({ DynamicLoop(dynamics, d + 1, x, y,
                         LocationLoop(locations, d, 1, x, y, acc)) :
             locations \in { getChargeLocations(dynamics[d]) } })

\* The sums started with closestDist = 0 in place of Infinity.
FieldStartNearestZero ==
  [x |-> Zero, y |-> Zero, pot |-> Zero, closestDist |-> Zero, srcs |-> << >>]

\* netX = netY = netPot = 0, closestDist = Infinity
FieldStart ==
  [x |-> Zero, y |-> Zero, pot |-> Zero, closestDist |-> Inf(1), srcs |-> << >>]

getNetElecField(particles, dynamics, x, y) ==
  Val({ DynamicLoop(dyn, 1, px, py, StaticLoop(particles, 1, px, py, FieldStart)) :
        dyn \in { dynamics }, px \in { x }, py \in { y } })

(***************************************************************************)
(* Dynamic bodies                                                          *)
(***************************************************************************)
\* The guard with the threshold of the earlier iteration, 4 / PIXELS_PER_METER.
GuardTriggeredAt4(closestDist) ==
  FLt(closestDist, FDiv(FromInt(4), FromInt(PIXELS_PER_METER)))

\* "Too close to particle": closestDist < TOO_CLOSE
GuardTriggered(closestDist) == FLt(closestDist, TOO_CLOSE)

DynamicParticle(x, y, charge, mass) ==
  [kind |-> "particle", x |-> x, y |-> y, charge |-> charge, mass |-> mass,
   velX |-> Zero, velY |-> Zero]

\* The second half of DynamicParticle.update: F = ma, then the velocity and
\* the position are advanced.
DynamicParticle_move(this, netX, netY, dt) ==
  Val({ [this EXCEPT !.velX = velX, !.velY = velY,
                     !.x = FAdd(this.x, FMul(velX, dt)),
                     !.y = FAdd(this.y, FMul(velY, dt))] :
        velX \in { FAdd(this.velX, FMul(FDiv(netX, this.mass), dt)) },
        velY \in { FAdd(this.velY, FMul(FDiv(netY, this.mass), dt)) } })

DynamicParticle_update(this, particles, dynamics, dt) ==
  Val({ IF GuardTriggered(f.closestDist)
        THEN [keep |-> FALSE, body |-> this, fields |-> << f >>]
        ELSE [keep |-> TRUE,
              body |-> DynamicParticle_move(this, FMul(f.x, this.charge),
                                            FMul(f.y, this.charge), dt),
              fields |-> << f >>] :
        f \in { getNetElecField(particles, dynamics, this.x, this.y) } })

\* Gets magnitude of the perpendicular component of B on A
perpComponent(ax, ay, bx, by) ==
  Val({ FAdd(FMul(FDiv(FNeg(ay), magA), bx), FMul(FDiv(ax, magA), by)) :
        magA \in { FSqrt(FAdd(FMul(ax, ax), FMul(ay, ay))) } })

DynamicDipole(x, y, charge1, charge2, mass1, mass2, spacing) ==
  Val({ Val({ [kind |-> "dipole", x |-> x, y |-> y, angle |-> Zero,
               charge1 |-> charge1, charge2 |-> charge2,
               velX |-> Zero, velY |-> Zero, rotVel |-> Zero,
               offset1 |-> offset1, offset2 |-> offset2,
               mass |-> FAdd(mass1, mass2),
               moi |-> FAdd(FMul(FMul(mass1, offset1), offset1),
                            FMul(FMul(mass2, offset2), offset2))] :
              offset1 \in { FNeg(c) }, offset2 \in { FSub(spacing, c) } }) :
        c \in { FDiv(FMul(mass2, spacing), FAdd(mass1, mass2)) } })

\* The lever arm of a charge's torque: abs(this.offset).
TorqueArm(offset) == FAbs(offset)

\* The end of DynamicDipole.update: the velocities, then the position and the
\* angle, are advanced.
DynamicDipole_move(this, accelX, accelY, rotAccel, dt) ==
  Val({ [this EXCEPT !.velX = velX, !.velY = velY, !.rotVel = rotVel,
                     !.x = FAdd(this.x, FMul(velX, dt)),
                     !.y = FAdd(this.y, FMul(velY, dt)),
                     !.angle = FAdd(this.angle, FMul(rotVel, dt))] :
        velX \in { FAdd(this.velX, FMul(accelX, dt)) },
        velY \in { FAdd(this.velY, FMul(accelY, dt)) },
        rotVel \in { FAdd(this.rotVel, FMul(rotAccel, dt)) } })

\* The sum of the torques of the earlier iteration: each perpendicular
\* component times the offset itself, torque = perpComponent(...) * this.offset.
SignedTorque(this, p, field1, field2) ==
  FAdd(FMul(perpComponent(FSub(p.x1, this.x), FSub(p.y1, this.y),
                          FMul(field1.x, this.charge1), FMul(field1.y, this.charge1)),
            this.offset1),
       FMul(perpComponent(FSub(p.x2, this.x), FSub(p.y2, this.y),
                          FMul(field2.x, this.charge2), FMul(field2.y, this.charge2)),
            this.offset2))

\* DynamicDipole.update after the guard: forces, torques, accelerations.
DynamicDipole_forces(this, p, field1, field2, dt) ==
  Val({ DynamicDipole_move(this,
          FDiv(FAdd(f1x, f2x), this.mass),
          FDiv(FAdd(f1y, f2y), this.mass),
          FDiv(FAdd(FMul(perpComponent(FSub(p.x1, this.x), FSub(p.y1, this.y), f1x, f1y),
                         TorqueArm(this.offset1)),
                    FMul(perpComponent(FSub(p.x2, this.x), FSub(p.y2, this.y), f2x, f2y),
                         TorqueArm(this.offset2))),
               this.moi),
          dt) :
        f1x \in { FMul(field1.x, this.charge1) },
        f1y \in { FMul(field1.y, this.charge1) },
        f2x \in { FMul(field2.x, this.charge2) },
        f2y \in { FMul(field2.y, this.charge2) } })

\* DynamicDipole.update from the two field evaluations on.
DynamicDipole_guard(this, p, particles, dynamics, dt) ==
  Val({ IF GuardTriggered(field1.closestDist) \/ GuardTriggered(field2.closestDist)
        THEN [keep |-> FALSE, body |-> this, fields |-> << field1, field2 >>]
        ELSE [keep |-> TRUE,
              body |-> DynamicDipole_forces(this, p, field1, field2, dt),
              fields |-> << field1, field2 >>] :
        field1 \in { getNetElecField(particles, dynamics, p.x1, p.y1) },
        field2 \in { getNetElecField(particles, dynamics, p.x2, p.y2) } })

DynamicDipole_update(this, particles, dynamics, dt) ==
  Val({ DynamicDipole_guard(this, p, particles, dynamics, dt) :
        p \in { DipoleEnds(this, FSin(this.angle), FCos(this.angle)) } })

\* dynamics[j].update(particles, interact, dt): dispatch on the body's class.
Body_update(this, particles, dynamics, dt) ==
  IF this.kind = "particle"
  THEN DynamicParticle_update(this, particles, dynamics, dt)
  ELSE DynamicDipole_update(this, particles, dynamics, dt)

(***************************************************************************)
(* Flow-line tracers                                                       *)
(***************************************************************************)
\* marks and age are history: the marks drawn and the micro-steps taken by
\* this tracer since its construction.
FlowLineTracer(x, y, direction) ==
  [x |-> x, y |-> y, direction |-> direction, distSinceArrow |-> Zero,
   prevPotential |-> Null, marks |-> 0, age |-> 0]

\* Whether before / interval and after / interval have different floors.
crossesMultiple(before, after, interval) ==
  FNe(FFloor(FDiv(before, interval)), FFloor(FDiv(after, interval)))

\* The dynamics passed on to getNetElecField as they are.
AllSources(dynamics) == dynamics

\* "Don't pass dynamics, the flow lines only show static particles": the
\* second argument of updateAndDraw's getNetElecField call, given the global
\* dynamics.
StreamlineSources(dynamics) == << >>

\* The arrow test with the declared ceiling MAX_ARROW_POTENTIAL.
ArrowTestDeclared(netPotential, prevPotential, arrowSpacing) ==
  /\ FLt(FAbs(netPotential), FromInt(MAX_ARROW_POTENTIAL))
  /\ prevPotential # Null
  /\ crossesMultiple(prevPotential, netPotential, arrowSpacing)

\* The arrow test of updateAndDraw.
ArrowTest(netPotential, prevPotential, arrowSpacing) ==
  /\ FLt(FAbs(netPotential), FromInt(ARROW_POTENTIAL_LITERAL))
  /\ prevPotential # Null
  /\ crossesMultiple(prevPotential, netPotential, arrowSpacing)

\* One iteration of the loop of updateAndDraw from the arrow test on.
FlowLineTracer_move(this, f, magnitude, drawn) ==
  Val({ [tracer |-> [this EXCEPT
                       !.prevPotential = f.pot,
                       !.x = FAdd(this.x, FMul(FMul(FDiv(f.x, netField),
                                                    TRACER_STEP_DISTANCE),
                                               FromInt(this.direction))),
                       !.y = FAdd(this.y, FMul(FMul(FDiv(f.y, netField),
                                                    TRACER_STEP_DISTANCE),
                                               FromInt(this.direction))),
                       !.marks = IF mark THEN this.marks + 1 ELSE this.marks,
                       !.age = this.age + 1],
         mark |-> mark,
         netField |-> netField,
         pot |-> f.pot] :
        netField \in { magnitude }, mark \in { drawn } })

\* One iteration of the loop of FlowLineTracer.updateAndDraw.
FlowLineTracer_step(this, particles, dynamics, arrowSpacing) ==
  Val({ FlowLineTracer_move(this, f,
                            FSqrt(FAdd(FMul(f.x, f.x), FMul(f.y, f.y))),
                            ArrowTest(f.pot, this.prevPotential, arrowSpacing)) :
        f \in { getNetElecField(particles, StreamlineSources(dynamics),
                                this.x, this.y) } })

\* A seed that traces forward whatever the sign of the particle.
SeedForward(particle, i, density) ==
  Val({ FlowLineTracer(FAdd(particle.x, FMul(SEED_RADIUS, FCos(angle))),
                       FAdd(particle.y, FMul(SEED_RADIUS, FSin(angle))),
                       1) :
        angle \in { FMul(FDiv(FromInt(i), FromInt(density)), TWO_PI) } })

\* Tracer i of the tracersPerParticle that clearField seeds around a particle.
Seed(particle, i, density) ==
  Val({ FlowLineTracer(FAdd(particle.x, FMul(SEED_RADIUS, FCos(angle))),
                       FAdd(particle.y, FMul(SEED_RADIUS, FSin(angle))),
                       IF FGt(particle.charge, Zero) THEN 1 ELSE -1) :
        angle \in { FMul(FDiv(FromInt(i), FromInt(density)), TWO_PI) } })

\* The tracers clearField makes: tracersPerParticle around each particle.
Seeds(particles, density) ==
  [n \in 1..(Len(particles) * density) |->
     Seed(particles[((n - 1) \div density) + 1], (n - 1) % density, density)]

(***************************************************************************)
(* The earlier iteration of the sketch (part_000): arrows by distance      *)
(*                                                                         *)
(* Its tracers draw a mark each time the distance travelled since the last *)
(* mark reaches arrowSpacing.  distSinceArrow and arrowSpacing are sums    *)
(* and differences of 0.025, 0.1 and 1, and the rounding of these sums     *)
(* decides at which micro-step a mark is drawn, so they are modelled to    *)
(* the bit: a double that is a multiple of 2^-58 is the integer            *)
(* value * 2^58 in three limbs of LimbBits bits, least significant first,  *)
(* and each operation rounds its exact result to DoubleBits significant    *)
(* bits, ties to even.  Positions are floats as above.  The dynamic bodies *)
(* of this iteration do not touch the tracers and are left out.            *)
(***************************************************************************)
LimbBits == 20
Limb == 2^LimbBits
DoubleBits == 53

\* The double sgn * (l2 * Limb^2 + l1 * Limb + l0) * 2^-58
Double(sgn, l0, l1, l2) == [s |-> sgn, l |-> << l0, l1, l2 >>]

\* Limbs brought back into 0 .. Limb - 1, the carries (or borrows) moved up.
Carry3(a0, a1, a2) ==
  << a0 % Limb,
     (a1 + a0 \div Limb) % Limb,
     a2 + (a1 + a0 \div Limb) \div Limb >>

\* The number of significant bits of the limbs v.
DBits(v) ==
  IF v[3] > 0 THEN 2 * LimbBits + BitLen(v[3])
  ELSE IF v[2] > 0 THEN LimbBits + BitLen(v[2])
  ELSE BitLen(v[1])

\* v with its r lowest bits rounded away, ties to even (0 < r < LimbBits).
DRoundAt(v, r) ==
  Carry3(v[1] - (v[1] % 2^r)
           + (IF \/ v[1] % 2^r > 2^(r - 1)
                 \/ (v[1] % 2^r = 2^(r - 1) /\ (v[1] \div 2^r) % 2 = 1)
              THEN 2^r ELSE 0),
         v[2], v[3])

\* The exact value x rounded to a double.
DRound(x) ==
  Val({ IF DBits(v) <= DoubleBits THEN v ELSE DRoundAt(v, DBits(v) - DoubleBits) :
        v \in { x } })

\* a + b and a - b for doubles 0 <= b <= a
DAdd(a, b) ==
  [s |-> 1, l |-> DRound(Carry3(a.l[1] + b.l[1], a.l[2] + b.l[2], a.l[3] + b.l[3]))]

DSub(a, b) ==
  [s |-> 1, l |-> DRound(Carry3(a.l[1] - b.l[1], a.l[2] - b.l[2], a.l[3] - b.l[3]))]

\* a < b for doubles a, b >= 0
DLt(a, b) ==
  \/ a.l[3] < b.l[3]
  \/ a.l[3] = b.l[3] /\ a.l[2] < b.l[2]
  \/ a.l[3] = b.l[3] /\ a.l[2] = b.l[2] /\ a.l[1] < b.l[1]

DGe(a, b) == ~DLt(a, b)

\* a > 0
DPositive(a) == a.s > 0 /\ a.l # << 0, 0, 0 >>

\* The doubles 0, 1, 4 and -1, and those nearest to 0.025
\* (7205759403792794 * 2^-58), 0.1 (28823037615171176 * 2^-58) and 0.2.
Dist_ZERO == Double(1, 0, 0, 0)
Dist_ONE == Double(1, 0, 0, 2^18)
Dist_FOUR == Double(1, 0, 0, 2^20)
Dist_MINUS_ONE == Double(-1, 0, 0, 2^18)
Dist_TRACER_STEP_DISTANCE == Double(1, 629146, 629145, 6553)
Dist_SPACING_STEP == Double(1, 419432, 419430, 26214)
Dist_SPACING_MIN == Double(1, 838864, 838860, 52428)
Dist_TRACER_STEPS_PER_FRAME == 10
\* TRACER_STEP_DISTANCE as the float that moves the tracer
Dist_StepLength == Dec(25, -3)

\* The body of the loop of getNetElecPotential.
Dist_AddStatic(sum, particle, x, y) ==
  Val({ Val({ Val({ [acc EXCEPT
                       !.x = FAdd(acc.x, FMul(FDiv(dx, dist), elecPotential)),
                       !.y = FAdd(acc.y, FMul(FDiv(dy, dist), elecPotential)),
                       !.closestDist = IF FLt(dist, acc.closestDist)
                                       THEN dist ELSE acc.closestDist] :
                    dist \in { FSqrt(distSquared) },
                    elecPotential \in { FDiv(FMul(K, particle.charge), distSquared) } }) :
              distSquared \in { FAdd(FMul(dx, dx), FMul(dy, dy)) } }) :
        acc \in { sum }, dx \in { FSub(x, particle.x) }, dy \in { FSub(y, particle.y) } })

RECURSIVE Dist_StaticLoop(_, _, _, _, _)
Dist_StaticLoop(particles, i, x, y, acc) ==
  IF i > Len(particles) THEN acc
  ELSE Dist_StaticLoop(particles, i + 1, x, y,
                       Dist_AddStatic(acc, particles[i], x, y))

Dist_getNetElecPotential(particles, x, y) ==
  Val({ Dist_StaticLoop(particles, 1, px, py,
                        [x |-> Zero, y |-> Zero, closestDist |-> Inf(1)]) :
        px \in { x }, py \in { y } })

\* age and marks are history, as above.
Dist_FlowLineTracer(x, y, direction) ==
  [x |-> x, y |-> y, direction |-> direction, distSinceArrow |-> Dist_ZERO,
   marks |-> 0, age |-> 0]

\* this.distSinceArrow = 0 in place of this.distSinceArrow -= arrowSpacing
ResetAccumulator(acc, arrowSpacing) == Dist_ZERO

\* this.distSinceArrow -= arrowSpacing
ReduceAccumulator(acc, arrowSpacing) == DSub(acc, arrowSpacing)

\* The arrow part of a micro-step: the new distSinceArrow, whether a mark is
\* drawn, and (history) the value the test compared with arrowSpacing.
Dist_Accumulate(distSinceArrow, arrowSpacing) ==
  IF ~DPositive(arrowSpacing)
  THEN [d |-> distSinceArrow, mark |-> FALSE, acc |-> distSinceArrow]
  ELSE Val({ IF DGe(acc, arrowSpacing)
             THEN [d |-> ReduceAccumulator(acc, arrowSpacing), mark |-> TRUE,
                   acc |-> acc]
             ELSE [d |-> acc, mark |-> FALSE, acc |-> acc] :
             acc \in { DAdd(distSinceArrow, Dist_TRACER_STEP_DISTANCE) } })

\* One iteration of the loop of updateAndDraw from the normalisation on.
Dist_FlowLineTracer_move(this, f, magnitude, arrow) ==
  Val({ [tracer |-> [this EXCEPT
                       !.x = FAdd(this.x, FMul(FMul(FDiv(f.x, netPotential),
                                                    Dist_StepLength),
                                               FromInt(this.direction))),
                       !.y = FAdd(this.y, FMul(FMul(FDiv(f.y, netPotential),
                                                    Dist_StepLength),
                                               FromInt(this.direction))),
                       !.distSinceArrow = a.d,
                       !.marks = IF a.mark THEN this.marks + 1 ELSE this.marks,
                       !.age = this.age + 1],
         mark |-> a.mark,
         acc |-> a.acc] :
        netPotential \in { magnitude }, a \in { arrow } })

\* One iteration of the loop of FlowLineTracer.updateAndDraw.
Dist_FlowLineTracer_step(this, particles, arrowSpacing) ==
  Val({ Dist_FlowLineTracer_move(this, f,
                                 FSqrt(FAdd(FMul(f.x, f.x), FMul(f.y, f.y))),
                                 Dist_Accumulate(this.distSinceArrow, arrowSpacing)) :
        f \in { Dist_getNetElecPotential(particles, this.x, this.y) } })

Dist_Seed(particle, i, density) ==
  Val({ Dist_FlowLineTracer(FAdd(particle.x, FMul(SEED_RADIUS, FCos(angle))),
                            FAdd(particle.y, FMul(SEED_RADIUS, FSin(angle))),
                            IF FGt(particle.charge, Zero) THEN 1 ELSE -1) :
        angle \in { FMul(FDiv(FromInt(i), FromInt(density)), TWO_PI) } })

Dist_Seeds(particles, density) ==
  [n \in 1..(Len(particles) * density) |->
     Dist_Seed(particles[((n - 1) \div density) + 1], (n - 1) % density, density)]

(***************************************************************************)
(* State                                                                   *)
(***************************************************************************)
VARIABLES
  particles,          \* the static particles, in placement order
  tracers,            \* the flow-line tracers
  bodies,             \* every dynamic body constructed so far, by identity
  dynamics,           \* the active collection: identities, in array order
  tracersPerParticle,
  arrowsEnabled,
  arrowSpacing,
  dynamicsInteract,
  pc,                 \* "idle", or draw's position: "tracers" / "dynamics"
  ti, tk,             \* draw: tracer index and its loop counter i
  si, sj,             \* draw: substep counter i and body index j
  frames,             \* frames drawn
  ncmd,               \* commands handled; ncmd + frames is bounded by MaxEvents
  \* history variables
  tracersB,           \* the tracers of the run that gets the same commands
                      \* except those on dynamic bodies
  ev,                 \* what the last step did
  subStart,           \* the active collection when the current substep began
  subBodies,          \* ... and the bodies as they were then
  upd,                \* the bodies updated in the current substep, in order
  removed,            \* the bodies draw has spliced out
  nearPos,            \* at the start of the frame: bodies positioned within
                      \* TOO_CLOSE of a static particle
  nearLoc             \* ... and bodies with a charge location within it

world == << particles, tracers, bodies, dynamics, tracersPerParticle,
            arrowsEnabled, arrowSpacing, dynamicsInteract >>
loop == << pc, ti, tk, si, sj >>
hist == << tracersB, ev, subStart, subBodies, upd, removed, nearPos, nearLoc >>
vars == << world, loop, frames, ncmd, hist >>

\* Bounds of the model: the commands and frames of a run, and the line
\* density the ArrowUp key may reach.
MaxEvents == 4
MaxDensity == 5

\* The density and arrow-spacing limits of keyPressed.
DENSITY_MAX == 64
DENSITY_MIN == 4
SPACING_MAX == Dec(99, -1)
SPACING_MIN == Dec(11, -1)

\* Mouse positions in pixels from the canvas centre, (mouseX - width/2,
\* height/2 - mouseY): where static particles are placed, and where the
\* mouse is when 'p' and when 'd' is pressed.  (3, 4) is 5 pixels from the
\* origin, (6, 0) is 6; a dipole at (25, 4) has a charge at (0, 4).
StaticPixels == { <<0, 0>>, <<2, 0>> }
ParticlePixels == { <<3, 4>>, <<6, 0>> }
DipolePixels == { <<3, 4>>, <<25, 4>> }

getMousePosition(px) ==
  [x |-> FDiv(FromInt(px[1]), FromInt(PIXELS_PER_METER)),
   y |-> FDiv(FromInt(px[2]), FromInt(PIXELS_PER_METER))]

NoEvent == [kind |-> "none"]

\* The state after the script has loaded and setup has run, with the line
\* density brought down to its minimum (ArrowDown pressed until it has no
\* effect, which changes nothing else while there are no particles).
Init ==
  /\ particles = << >>
  /\ tracers = << >>
  /\ bodies = << >>
  /\ dynamics = << >>
  /\ tracersPerParticle = DENSITY_MIN
  /\ arrowsEnabled = TRUE
  /\ arrowSpacing = 5
  /\ dynamicsInteract = FALSE
  /\ pc = "idle" /\ ti = 0 /\ tk = 0 /\ si = 0 /\ sj = 0
  /\ frames = 0
  /\ ncmd = 0
  /\ tracersB = << >>
  /\ ev = NoEvent
  /\ subStart = << >>
  /\ subBodies = << >>
  /\ upd = << >>
  /\ removed = {}
  /\ nearPos = {}
  /\ nearLoc = {}

(***************************************************************************)
(* Commands: mousePressed, keyPressed, windowResized                       *)
(***************************************************************************)
Command ==
  /\ pc = "idle"
  /\ ncmd + frames < MaxEvents
  /\ ncmd' = ncmd + 1
  /\ ev' = NoEvent
  /\ UNCHANGED << loop, frames, subStart, subBodies, upd, removed, nearPos,
                  nearLoc >>

\* clearField(): the tracers are made anew from the particles.
clearField(newParticles, density) ==
  \E seeds \in { Seeds(newParticles, density) } :
    /\ tracers' = seeds
    /\ tracersB' = seeds

\* mouseButton == LEFT ? STATIC_PARTICLE_CHARGE : -STATIC_PARTICLE_CHARGE
ButtonCharge(left) ==
  IF left THEN STATIC_PARTICLE_CHARGE ELSE FNeg(STATIC_PARTICLE_CHARGE)

mousePressed ==
  \E px \in StaticPixels, left \in BOOLEAN :
    \E pos \in { getMousePosition(px) } :
      /\ Command
      /\ particles' = Append(particles,
                             StaticParticle(pos.x, pos.y, ButtonCharge(left)))
      /\ clearField(particles', tracersPerParticle)
      /\ UNCHANGED << bodies, dynamics, tracersPerParticle, arrowsEnabled,
                      arrowSpacing, dynamicsInteract >>

windowResized ==
  /\ Command
  /\ clearField(particles, tracersPerParticle)
  /\ UNCHANGED << particles, bodies, dynamics, tracersPerParticle,
                  arrowsEnabled, arrowSpacing, dynamicsInteract >>

\* key == ' ': clearAll()
KeySpace ==
  /\ Command
  /\ particles' = << >>
  /\ tracers' = << >>
  /\ tracersB' = << >>
  /\ dynamics' = << >>
  /\ UNCHANGED << bodies, tracersPerParticle, arrowsEnabled, arrowSpacing,
                  dynamicsInteract >>

KeyA ==
  /\ Command
  /\ arrowsEnabled' = ~arrowsEnabled
  /\ clearField(particles, tracersPerParticle)
  /\ UNCHANGED << particles, bodies, dynamics, tracersPerParticle,
                  arrowSpacing, dynamicsInteract >>

KeyI ==
  /\ Command
  /\ dynamicsInteract' = ~dynamicsInteract
  /\ UNCHANGED << particles, tracers, tracersB, bodies, dynamics,
                  tracersPerParticle, arrowsEnabled, arrowSpacing >>

\* dynamics.push(body): the new body gets the next identity.
Push(body) ==
  /\ bodies' = Append(bodies, body)
  /\ dynamics' = Append(dynamics, Len(bodies) + 1)

KeyP ==
  \E px \in ParticlePixels :
    \E pos \in { getMousePosition(px) } :
      /\ Command
      /\ Push(DynamicParticle(pos.x, pos.y, DYNAMIC_PARTICLE_CHARGE,
                              DYNAMIC_PARTICLE_MASS))
      /\ UNCHANGED << particles, tracers, tracersB, tracersPerParticle,
                      arrowsEnabled, arrowSpacing, dynamicsInteract >>

KeyD ==
  \E px \in DipolePixels :
    \E pos \in { getMousePosition(px) } :
      /\ Command
      /\ Push(DynamicDipole(pos.x, pos.y, DYNAMIC_PARTICLE_CHARGE,
                            FNeg(DYNAMIC_PARTICLE_CHARGE),
                            DYNAMIC_PARTICLE_MASS, DYNAMIC_PARTICLE_MASS,
                            DYNAMIC_DIPOLE_SPACING))
      /\ UNCHANGED << particles, tracers, tracersB, tracersPerParticle,
                      arrowsEnabled, arrowSpacing, dynamicsInteract >>

KeyC ==
  /\ Command
  /\ dynamics' = << >>
  /\ UNCHANGED << particles, tracers, tracersB, bodies, tracersPerParticle,
                  arrowsEnabled, arrowSpacing, dynamicsInteract >>

\* The tracers after a change of arrow spacing: clearField() only if
\* arrowsEnabled.
SpacingChanged ==
  IF arrowsEnabled
  THEN clearField(particles, tracersPerParticle)
  ELSE UNCHANGED << tracers, tracersB >>

KeyArrowRight ==
  /\ FLt(FromInt(arrowSpacing), SPACING_MAX)
  /\ Command
  /\ arrowSpacing' = arrowSpacing + 1
  /\ SpacingChanged
  /\ UNCHANGED << particles, bodies, dynamics, tracersPerParticle,
                  arrowsEnabled, dynamicsInteract >>

KeyArrowLeft ==
  /\ FGt(FromInt(arrowSpacing), SPACING_MIN)
  /\ Command
  /\ arrowSpacing' = arrowSpacing - 1
  /\ SpacingChanged
  /\ UNCHANGED << particles, bodies, dynamics, tracersPerParticle,
                  arrowsEnabled, dynamicsInteract >>

KeyArrowUp ==
  /\ tracersPerParticle < DENSITY_MAX
  /\ tracersPerParticle < MaxDensity
  /\ Command
  /\ tracersPerParticle' = tracersPerParticle + 1
  /\ clearField(particles, tracersPerParticle')
  /\ UNCHANGED << particles, bodies, dynamics, arrowsEnabled, arrowSpacing,
                  dynamicsInteract >>

KeyArrowDown ==
  /\ tracersPerParticle > DENSITY_MIN
  /\ Command
  /\ tracersPerParticle' = tracersPerParticle - 1
  /\ clearField(particles, tracersPerParticle')
  /\ UNCHANGED << particles, bodies, dynamics, arrowsEnabled, arrowSpacing,
                  dynamicsInteract >>

keyPressed ==
  \/ KeySpace \/ KeyA \/ KeyI \/ KeyP \/ KeyD \/ KeyC
  \/ KeyArrowRight \/ KeyArrowLeft \/ KeyArrowUp \/ KeyArrowDown

(***************************************************************************)
(* draw(): one step per loop iteration, with no command in between         *)
(***************************************************************************)
Range(seq) == { seq[i] : i \in 1..Len(seq) }

\* The objects the array dynamics holds.
ActiveBodies == [i \in 1..Len(dynamics) |-> bodies[dynamics[i]]]

\* let interact = dynamicsInteract ? dynamics : [];
Interact == IF dynamicsInteract THEN ActiveBodies ELSE << >>

\* arrowsEnabled ? arrowSpacing : -1
ArrowSpacingArg == IF arrowsEnabled THEN arrowSpacing ELSE -1

\* dt / DYNAMIC_PARTICLE_SUBSTEPS
SubstepDt == FDiv(FRAME_DT, FromInt(DYNAMIC_PARTICLE_SUBSTEPS))

\* A splice that removes nothing.
SpliceNothing(seq, j) == seq

\* dynamics.splice(j, 1)
Splice(seq, j) == SubSeq(seq, 1, j - 1) \o SubSeq(seq, j + 1, Len(seq))

\* The loop's j++ alone, without the j-- of a removal.
NextIndexNoStepBack(j, keep) == j + 1

\* The value of j for the next iteration of the inner loop: j-- on a removal,
\* then the loop's j++.
NextIndex(j, keep) == IF keep THEN j + 1 ELSE (j - 1) + 1

\* Whether some static particle is closer than TOO_CLOSE to (x, y).
NearStatic(x, y) ==
  \E i \in 1..Len(particles) :
    FLt(getElecField(particles[i], x, y).dist, TOO_CLOSE)

FrameDone ==
  /\ pc' = "idle" /\ ti' = 0 /\ tk' = 0 /\ si' = 0 /\ sj' = 0
  /\ frames' = frames + 1
  /\ UNCHANGED << subStart, subBodies, upd >>

\* The substep loops start (or, with no bodies, have nothing to do).
EnterDynamics ==
  IF Len(dynamics) > 0
  THEN /\ pc' = "dynamics" /\ ti' = 0 /\ tk' = 0 /\ si' = 0 /\ sj' = 1
       /\ frames' = frames
       /\ subStart' = dynamics
       /\ subBodies' = bodies
       /\ upd' = << >>
  ELSE FrameDone

DrawBegin ==
  /\ pc = "idle"
  /\ ncmd + frames < MaxEvents
  /\ nearPos' = { id \in Range(dynamics) : NearStatic(bodies[id].x, bodies[id].y) }
  /\ nearLoc' = { id \in Range(dynamics) :
                    \E locations \in { getChargeLocations(bodies[id]) } :
                      \E l \in 1..Len(locations) :
                        NearStatic(locations[l].x, locations[l].y) }
  /\ ev' = NoEvent
  /\ IF Len(tracers) > 0
     THEN /\ pc' = "tracers" /\ ti' = 1 /\ tk' = 0 /\ si' = 0 /\ sj' = 0
          /\ frames' = frames
          /\ UNCHANGED << subStart, subBodies, upd >>
     ELSE EnterDynamics
  /\ UNCHANGED << world, ncmd, tracersB, removed >>

\* One iteration of tracer ti's loop in tracer.updateAndDraw.
TracerStep ==
  /\ pc = "tracers"
  /\ \E r \in { FlowLineTracer_step(tracers[ti], particles, ActiveBodies,
                                    FromInt(ArrowSpacingArg)) },
        rB \in { FlowLineTracer_step(tracersB[ti], particles, << >>,
                                     FromInt(ArrowSpacingArg)) } :
        /\ tracers' = [tracers EXCEPT ![ti] = r.tracer]
        /\ tracersB' = [tracersB EXCEPT ![ti] = rB.tracer]
        /\ ev' = [kind |-> "trace", t |-> ti, mark |-> r.mark,
                  zeroField |-> IsZero(r.netField),
                  prev |-> tracers[ti].prevPotential, pot |-> r.pot,
                  spacing |-> ArrowSpacingArg,
                  moved |-> r.tracer.x # tracers[ti].x \/ r.tracer.y # tracers[ti].y,
                  defined |-> IsNum(r.tracer.x) /\ IsNum(r.tracer.y)]
  /\ IF tk + 1 < TRACER_STEPS_PER_FRAME
     THEN /\ tk' = tk + 1
          /\ UNCHANGED << pc, ti, si, sj, frames, subStart, subBodies, upd >>
     ELSE IF ti < Len(tracers)
     THEN /\ ti' = ti + 1 /\ tk' = 0
          /\ UNCHANGED << pc, si, sj, frames, subStart, subBodies, upd >>
     ELSE EnterDynamics
  /\ UNCHANGED << particles, bodies, dynamics, tracersPerParticle,
                  arrowsEnabled, arrowSpacing, dynamicsInteract, ncmd,
                  removed, nearPos, nearLoc >>

\* What the history records of the sources getNetElecField visited.
SourcesOf(fields) ==
  IF Len(fields) = 1 THEN fields[1].srcs ELSE fields[1].srcs \o fields[2].srcs

\* What the history records of one update: the body, the outcome, and what
\* getNetElecField summed.
BodyEvent(j, id, r, srcs, endOfSubstep) ==
  [kind |-> "body", id |-> id, keep |-> r.keep,
   dipole |-> bodies[id].kind = "dipole",
   interact |-> dynamicsInteract,
   wasRemoved |-> id \in removed,
   endOfSubstep |-> endOfSubstep,
   startIds |-> subStart,
   updIds |-> Append(upd, id),
   \* a charge location of the body itself was summed
   selfUsed |-> \E n \in 1..Len(srcs) : srcs[n].d = j /\ srcs[n].used,
   \* another body's charge location is closer than TOO_CLOSE
   otherNear |-> \E n \in 1..Len(srcs) :
                   srcs[n].d # j /\ FLt(srcs[n].dist, TOO_CLOSE),
   \* ... and was summed all the same
   otherNearUsed |-> \E n \in 1..Len(srcs) :
                       /\ srcs[n].d # j
                       /\ FLt(srcs[n].dist, TOO_CLOSE)
                       /\ srcs[n].used,
   guard |-> \E n \in 1..Len(r.fields) :
               FLt(r.fields[n].closestDist, TOO_CLOSE),
   moved |-> r.body # bodies[id],
   \* the body before and after the update, and the fields it was given
   before |-> bodies[id],
   after |-> r.body,
   fields |-> r.fields,
   \* every other body in the collection is as it was when the substep began
   readPrevious |-> \A d \in 1..Len(dynamics) :
                      d # j => bodies[dynamics[d]] = subBodies[dynamics[d]],
   \* the net field was zero at every charge location of the body
   zeroField |-> \A n \in 1..Len(r.fields) :
                   IsZero(r.fields[n].x) /\ IsZero(r.fields[n].y),
   \* a charge location of the body was within TOO_CLOSE of a static particle
   locNear |-> \E locations \in { getChargeLocations(bodies[id]) } :
                 \E l \in 1..Len(locations) :
                   NearStatic(locations[l].x, locations[l].y),
   \* the body was at rest before the update
   atRest |-> /\ IsZero(bodies[id].velX) /\ IsZero(bodies[id].velY)
              /\ bodies[id].kind = "dipole" => IsZero(bodies[id].rotVel),
   \* the update left the velocities as they were
   velSame |-> /\ FEq(r.body.velX, bodies[id].velX)
               /\ FEq(r.body.velY, bodies[id].velY)
               /\ bodies[id].kind = "dipole" =>
                    FEq(r.body.rotVel, bodies[id].rotVel)]

\* One iteration of the inner loop of draw: dynamics[j].update(...), and the
\* splice when it returns false.
BodyStep ==
  /\ pc = "dynamics"
  /\ \E r \in { Body_update(bodies[dynamics[sj]], particles, Interact, SubstepDt) } :
      \E rest \in { IF r.keep THEN dynamics ELSE Splice(dynamics, sj) },
         id \in { dynamics[sj] },
         jNext \in { NextIndex(sj, r.keep) } :
        /\ bodies' = [bodies EXCEPT ![id] = r.body]
        /\ dynamics' = rest
        /\ removed' = IF r.keep THEN removed ELSE removed \cup {id}
        /\ ev' = BodyEvent(sj, id, r, SourcesOf(r.fields), jNext > Len(rest))
        /\ IF jNext <= Len(rest)
           THEN /\ sj' = jNext
                /\ upd' = Append(upd, id)
                /\ UNCHANGED << pc, ti, tk, si, frames, subStart, subBodies >>
           ELSE IF si + 1 < DYNAMIC_PARTICLE_SUBSTEPS /\ Len(rest) > 0
           THEN /\ si' = si + 1 /\ sj' = 1
                /\ subStart' = rest
                /\ subBodies' = bodies'
                /\ upd' = << >>
                /\ UNCHANGED << pc, ti, tk, frames >>
           ELSE FrameDone
  /\ UNCHANGED << particles, tracers, tracersB, tracersPerParticle,
                  arrowsEnabled, arrowSpacing, dynamicsInteract, ncmd,
                  nearPos, nearLoc >>

draw == DrawBegin \/ TracerStep \/ BodyStep

Next == mousePressed \/ keyPressed \/ windowResized \/ draw

Spec == Init /\ [][Next]_vars

(***************************************************************************)
(* The earlier iteration of the sketch (part_000): state and commands      *)
(***************************************************************************)
\* Bounds of this specification: the commands and the frames of a run.
MaxDistCommands == 2
MaxDistFrames == 9

\* Where the mouse is when a static particle is placed.
Dist_StaticPixels == { <<0, 0>> }

\* The state after the script has loaded and setup has run, with the line
\* density brought down to its minimum as in Init.  The variables of the
\* dynamic bodies stay as they are here.
InitDist ==
  /\ particles = << >>
  /\ tracers = << >>
  /\ bodies = << >>
  /\ dynamics = << >>
  /\ tracersPerParticle = DENSITY_MIN
  /\ arrowsEnabled = TRUE
  /\ arrowSpacing = Dist_ONE
  /\ dynamicsInteract = FALSE
  /\ pc = "idle" /\ ti = 0 /\ tk = 0 /\ si = 0 /\ sj = 0
  /\ frames = 0
  /\ ncmd = 0
  /\ tracersB = << >>
  /\ ev = NoEvent
  /\ subStart = << >>
  /\ subBodies = << >>
  /\ upd = << >>
  /\ removed = {}
  /\ nearPos = {}
  /\ nearLoc = {}

Dist_Unused ==
  UNCHANGED << bodies, dynamics, dynamicsInteract, si, sj, tracersB, subStart, subBodies,
               upd, removed, nearPos, nearLoc >>

Dist_Command ==
  /\ pc = "idle"
  /\ ncmd < MaxDistCommands
  /\ ncmd' = ncmd + 1
  /\ ev' = NoEvent
  /\ UNCHANGED << pc, ti, tk, frames >>
  /\ Dist_Unused

Dist_clearField(newParticles, density) ==
  tracers' = Dist_Seeds(newParticles, density)

Dist_mousePressed ==
  \E px \in Dist_StaticPixels, left \in BOOLEAN :
    \E pos \in { getMousePosition(px) } :
      /\ Dist_Command
      /\ particles' = Append(particles,
                             StaticParticle(pos.x, pos.y, ButtonCharge(left)))
      /\ Dist_clearField(particles', tracersPerParticle)
      /\ UNCHANGED << tracersPerParticle, arrowsEnabled, arrowSpacing >>

Dist_windowResized ==
  /\ Dist_Command
  /\ Dist_clearField(particles, tracersPerParticle)
  /\ UNCHANGED << particles, tracersPerParticle, arrowsEnabled, arrowSpacing >>

Dist_KeySpace ==
  /\ Dist_Command
  /\ particles' = << >>
  /\ tracers' = << >>
  /\ UNCHANGED << tracersPerParticle, arrowsEnabled, arrowSpacing >>

Dist_KeyA ==
  /\ Dist_Command
  /\ arrowsEnabled' = ~arrowsEnabled
  /\ Dist_clearField(particles, tracersPerParticle)
  /\ UNCHANGED << particles, tracersPerParticle, arrowSpacing >>

Dist_SpacingChanged ==
  IF arrowsEnabled
  THEN Dist_clearField(particles, tracersPerParticle)
  ELSE UNCHANGED tracers

Dist_KeyArrowRight ==
  /\ DLt(arrowSpacing, Dist_FOUR)
  /\ Dist_Command
  /\ arrowSpacing' = DAdd(arrowSpacing, Dist_SPACING_STEP)
  /\ Dist_SpacingChanged
  /\ UNCHANGED << particles, tracersPerParticle, arrowsEnabled >>

Dist_KeyArrowLeft ==
  /\ DLt(Dist_SPACING_MIN, arrowSpacing)
  /\ Dist_Command
  /\ arrowSpacing' = DSub(arrowSpacing, Dist_SPACING_STEP)
  /\ Dist_SpacingChanged
  /\ UNCHANGED << particles, tracersPerParticle, arrowsEnabled >>

Dist_KeyArrowUp ==
  /\ tracersPerParticle < DENSITY_MAX
  /\ tracersPerParticle < MaxDensity
  /\ Dist_Command
  /\ tracersPerParticle' = tracersPerParticle + 1
  /\ Dist_clearField(particles, tracersPerParticle')
  /\ UNCHANGED << particles, arrowsEnabled, arrowSpacing >>

Dist_KeyArrowDown ==
  /\ tracersPerParticle > DENSITY_MIN
  /\ Dist_Command
  /\ tracersPerParticle' = tracersPerParticle - 1
  /\ Dist_clearField(particles, tracersPerParticle')
  /\ UNCHANGED << particles, arrowsEnabled, arrowSpacing >>

Dist_keyPressed ==
  \/ Dist_KeySpace \/ Dist_KeyA
  \/ Dist_KeyArrowRight \/ Dist_KeyArrowLeft
  \/ Dist_KeyArrowUp \/ Dist_KeyArrowDown

\* arrowsEnabled ? arrowSpacing : -1
Dist_ArrowSpacingArg == IF arrowsEnabled THEN arrowSpacing ELSE Dist_MINUS_ONE

Dist_DrawBegin ==
  /\ pc = "idle"
  /\ frames < MaxDistFrames
  /\ ev' = NoEvent
  /\ IF Len(tracers) > 0
     THEN pc' = "tracers" /\ ti' = 1 /\ tk' = 0 /\ frames' = frames
     ELSE pc' = "idle" /\ ti' = 0 /\ tk' = 0 /\ frames' = frames + 1
  /\ UNCHANGED << particles, tracers, tracersPerParticle, arrowsEnabled,
                  arrowSpacing, ncmd >>
  /\ Dist_Unused

\* One iteration of tracer ti's loop in tracer.updateAndDraw.
Dist_TracerStep ==
  /\ pc = "tracers"
  /\ \E r \in { Dist_FlowLineTracer_step(tracers[ti], particles,
                                         Dist_ArrowSpacingArg) } :
        /\ tracers' = [tracers EXCEPT ![ti] = r.tracer]
        /\ ev' = [kind |-> "dist", t |-> ti, age |-> r.tracer.age,
                  mark |-> r.mark, acc |-> r.acc,
                  after |-> r.tracer.distSinceArrow,
                  spacing |-> Dist_ArrowSpacingArg]
  /\ IF tk + 1 < Dist_TRACER_STEPS_PER_FRAME
     THEN tk' = tk + 1 /\ UNCHANGED << pc, ti, frames >>
     ELSE IF ti < Len(tracers)
     THEN ti' = ti + 1 /\ tk' = 0 /\ UNCHANGED << pc, frames >>
     ELSE pc' = "idle" /\ ti' = 0 /\ tk' = 0 /\ frames' = frames + 1
  /\ UNCHANGED << particles, tracersPerParticle, arrowsEnabled, arrowSpacing,
                  ncmd >>
  /\ Dist_Unused

Dist_draw == Dist_DrawBegin \/ Dist_TracerStep

NextDist == Dist_mousePressed \/ Dist_keyPressed \/ Dist_windowResized \/ Dist_draw

SpecDist == InitDist /\ [][NextDist]_vars

(***************************************************************************)
(* Properties                                                              *)
(***************************************************************************)
IsPrefix(a, b) == Len(a) <= Len(b) /\ \A i \in 1..Len(a) : a[i] = b[i]

\* C1, as stated: every body, particle or dipole, whose position was within
\* TOO_CLOSE of a static particle when a frame began is out of the active
\* collection when the frame has completed.
C1_PlacedNearRemoved == pc = "idle" => nearPos \cap Range(dynamics) = {}

\* C1, amended: every body that had a charge location within TOO_CLOSE of a
\* static particle when a frame began (for a particle its position, for a
\* dipole either of its two ends) is out of the active collection when the
\* frame has completed.
C1_ChargeNearRemoved == pc = "idle" => nearLoc \cap Range(dynamics) = {}

\* A frame has completed that began with a particle and a dipole each having
\* a charge location within TOO_CLOSE of a static particle.
C1_Witness ==
  /\ pc = "idle"
  /\ \E id \in nearLoc : bodies[id].kind = "particle"
  /\ \E id \in nearLoc : bodies[id].kind = "dipole"

\* C2: in every substep the bodies updated so far are, in order, the first
\* bodies of the collection as it was when the substep began; when the
\* substep ends they are all of them, each once; and no body is updated
\* after it has been removed.
C2_EachUpdatedOnce ==
  ev.kind = "body" =>
    /\ IsPrefix(ev.updIds, ev.startIds)
    /\ ev.endOfSubstep => ev.updIds = ev.startIds
    /\ ~ev.wasRemoved

\* A substep has ended in which the first of two bodies was removed and the
\* second was updated after it.
C2_Witness ==
  /\ ev.kind = "body"
  /\ ev.endOfSubstep
  /\ Len(ev.startIds) = 2
  /\ ev.startIds[1] \in removed
  /\ ev.id = ev.startIds[2]

\* C3: with interaction enabled, no charge location of the body being
\* updated is summed into the field evaluated at its own charge locations.
C3_SelfExcluded == (ev.kind = "body" /\ ev.interact) => ~ev.selfUsed

\* C4: with interaction enabled, when a charge location of another body is
\* closer than TOO_CLOSE to the evaluation point, it is left out of the sum,
\* the returned closestDist is below TOO_CLOSE and the body being updated is
\* removed.
C4_OtherNearRemoves ==
  (ev.kind = "body" /\ ev.interact /\ ev.otherNear) =>
    (~ev.otherNearUsed /\ ev.guard /\ ~ev.keep)

\* C5: a tracer micro-step at a position where the net field has magnitude
\* zero leaves the position unchanged and well defined, and draws no mark.
C5_ZeroFieldSkipped ==
  (ev.kind = "trace" /\ ev.zeroField) => (~ev.moved /\ ~ev.mark /\ ev.defined)

\* C6: there are tracersPerParticle tracers for each static particle and no
\* others, in the order of the particles, and each traces forward (+1) from a
\* positive particle and backward (-1) from any other.
C6_TracerRegeneration ==
  /\ Len(tracers) = tracersPerParticle * Len(particles)
  /\ \A n \in 1..Len(tracers) :
       tracers[n].direction =
         IF FGt(particles[((n - 1) \div tracersPerParticle) + 1].charge, Zero)
         THEN 1 ELSE -1

\* After a change of density, the placement of a negative particle and a
\* frame.
C6_Witness ==
  /\ frames > 0
  /\ tracersPerParticle # DENSITY_MIN
  /\ \E n \in 1..Len(tracers) : tracers[n].direction = -1

\* C7: with arrowSpacing 1.0 and the arrows enabled, a micro-step draws a
\* mark exactly when it is the tracer's 40th, 80th, 120th, ... since its
\* creation, wherever the frames fall; and at a mark the accumulator is
\* reduced by the spacing: what is left plus the spacing is what had
\* accumulated.
C7_MarkEvery40 ==
  (ev.kind = "dist" /\ ev.spacing = Dist_ONE) =>
    /\ ev.mark <=> (ev.age % 40 = 0)
    /\ ev.mark =>
         Carry3(ev.after.l[1] + ev.spacing.l[1], ev.after.l[2] + ev.spacing.l[2],
                ev.after.l[3] + ev.spacing.l[3]) = ev.acc.l

\* The second mark of a tracer, at its 80th micro-step.
C7_Witness ==
  ev.kind = "dist" /\ ev.spacing = Dist_ONE /\ ev.mark /\ ev.age = 80

\* floor(p / spacing) differs from floor(c / spacing)
FloorsDiffer(p, c, spacing) ==
  FFloor(FDiv(p, FromInt(spacing))) # FFloor(FDiv(c, FromInt(spacing)))

C9_RemovalPermanent ==
  [][/\ \A id \in removed' : id \notin Range(dynamics')
     /\ \A id \in removed : bodies'[id] = bodies[id]]_vars

\* After a removal, another body is in the active collection and the frame
\* is over.
C9_Witness == removed # {} /\ Len(dynamics) > 0 /\ pc = "idle"

\* C10: the tracers are those of the run that gets the same static
\* particles, settings and frames and has no dynamic bodies at all; so any
\* two runs that differ only in their dynamic bodies have the same tracers.
C10_StreamlinesStaticOnly == tracers = tracersB

\* A tracer has taken a micro-step with a dynamic body in the collection and
\* interaction enabled.
C10_Witness == ev.kind = "trace" /\ Len(dynamics) > 0 /\ dynamicsInteract

\* C11, as stated: a substep of a dipole at whose two charge locations the
\* net field is zero keeps the dipole in the collection and leaves its linear
\* and angular velocity as they were; if it was at rest, its position and
\* angle (its whole record) are unchanged.
C11_ZeroFieldDipoleStill ==
  (ev.kind = "body" /\ ev.dipole /\ ev.zeroField) =>
    /\ ev.keep
    /\ ev.velSame
    /\ ev.atRest => ~ev.moved

\* C11, amended: the same for a dipole neither of whose charge locations is
\* within TOO_CLOSE of a static particle.
C11_ZeroFieldFarDipoleStill ==
  (ev.kind = "body" /\ ev.dipole /\ ev.zeroField /\ ~ev.locNear) =>
    /\ ev.keep
    /\ ev.velSame
    /\ ev.atRest => ~ev.moved

\* The last substep of a frame for a dipole at rest where the fields of the
\* static particles cancel, far from them.
C11_Witness ==
  /\ ev.kind = "body" /\ ev.dipole /\ ev.zeroField /\ ~ev.locNear
  /\ ev.atRest /\ ev.keep
  /\ Len(particles) > 0 /\ pc = "idle"

\* C12: with interaction enabled, the bodies updated so far in a substep are
\* the first bodies of the collection as it was when the substep began, in
\* order, and the state an update reads of every other body is that body's
\* state when the substep began (the end of the previous substep).
C12_ReadsPreviousSubstep ==
  (ev.kind = "body" /\ ev.interact) =>
    /\ IsPrefix(ev.updIds, ev.startIds)
    /\ ev.readPrevious

\* The angular velocity after a substep when each torque is the
\* perpendicular component of the force times the signed offset.
SignedOffsetRotVel(this, fields, dt) ==
  Val({ FAdd(this.rotVel,
             FMul(FDiv(SignedTorque(this, p, fields[1], fields[2]), this.moi), dt)) :
        p \in { DipoleEnds(this, FSin(this.angle), FCos(this.angle)) } })

\* C13: a substep that integrates a dipole adds to its angular velocity dt
\* times the angular acceleration (t1 + t2) / moi, where each t is the
\* component of the charge's force perpendicular to the radial vector, 90
\* degrees counter-clockwise from it, times the charge's signed offset along
\* the axis, and moi is the moment of inertia fixed at construction.
C13_SignedOffsetTorque ==
  (ev.kind = "body" /\ ev.dipole /\ ev.keep) =>
    /\ ev.after.moi = ev.before.moi
    /\ FEq(ev.after.rotVel, SignedOffsetRotVel(ev.before, ev.fields, SubstepDt))

\* C14: while arrowsEnabled is false, no micro-step of any tracer draws a
\* mark.
C14_NoMarksWhenDisabled ==
  (ev.kind \in {"trace", "dist"} /\ ~arrowsEnabled) => ~ev.mark

====
